---------------------------- MODULE Spec2Model ----------------------------
(***************************************************************************)
(* Build-retry orchestrator of the Daisy MCP desktop-automation server     *)
(* (src/unnamed/part_007): detectBuildErrors, loadAutomationMode,          *)
(* shouldAutoApprove and buildWithRetry.                                   *)
(*                                                                         *)
(* Texts are TLA+ strings; Len, SubSeq and \o work on them character by    *)
(* character, so substring tests and the regular expressions of the        *)
(* pattern tables are computed on the characters of the text.              *)
(***************************************************************************)
EXTENDS Integers, Sequences, FiniteSets, TLC

(***************************************************************************)
(* Bounds of the model.                                                    *)
(***************************************************************************)
\* largest maxRetries argument tried (the argument itself ranges over 0..MaxRetriesBound)
MaxRetriesBound == 3
\* largest number of allowlist entries tried in the shouldAutoApprove specification
MaxPatterns == 2
\* largest number of successive direct calls of detectBuildErrors
MaxCalls == 3

(***************************************************************************)
(* Text primitives.                                                        *)
(***************************************************************************)
\* includes that only looks at the start of s
includes_prefix(s, sub) == Len(sub) <= Len(s) /\ SubSeq(s, 1, Len(sub)) = sub

\* String.prototype.includes: sub occurs in s at some position (case-sensitive).
includes(s, sub) ==
  \E i \in 1..(Len(s) - Len(sub) + 1) : SubSeq(s, i, i + Len(sub) - 1) = sub

\* Canonical form of one character under the regular-expression flag i.
LowerChar(c) ==
  CASE c = "A" -> "a" [] c = "B" -> "b" [] c = "C" -> "c" [] c = "D" -> "d"
    [] c = "E" -> "e" [] c = "F" -> "f" [] c = "G" -> "g" [] c = "H" -> "h"
    [] c = "I" -> "i" [] c = "J" -> "j" [] c = "K" -> "k" [] c = "L" -> "l"
    [] c = "M" -> "m" [] c = "N" -> "n" [] c = "O" -> "o" [] c = "P" -> "p"
    [] c = "Q" -> "q" [] c = "R" -> "r" [] c = "S" -> "s" [] c = "T" -> "t"
    [] c = "U" -> "u" [] c = "V" -> "v" [] c = "W" -> "w" [] c = "X" -> "x"
    [] c = "Y" -> "y" [] c = "Z" -> "z" [] OTHER -> c

RECURSIVE ToLower(_)
ToLower(s) ==
  IF s = "" THEN "" ELSE LowerChar(SubSeq(s, 1, 1)) \o ToLower(SubSeq(s, 2, Len(s)))

\* the characters the regular-expression atom . does not match
LineTerminators == {"\n", "\r"}

\* s[from..to] holds no line terminator, so .* can span it
DotStarSpans(s, from, to) ==
  \A k \in from..to : SubSeq(s, k, k) \notin LineTerminators

\* One alternative of a regular expression: literal pieces joined by .* ,
\* matched in s at or after position from.  pieces is a non-empty sequence.
RECURSIVE MatchPieces(_, _, _, _)
MatchPieces(s, pieces, from, first) ==
  IF pieces = <<>> THEN TRUE
  ELSE LET p == Head(pieces) IN
       \E i \in from..(Len(s) - Len(p) + 1) :
          /\ SubSeq(s, i, i + Len(p) - 1) = p
          /\ first \/ DotStarSpans(s, from, i - 1)
          /\ MatchPieces(s, Tail(pieces), i + Len(p), FALSE)

\* RegExp.prototype.test for a pattern /alt1|alt2|.../i : the alternatives
\* are tried anywhere in the text, letters compared without case.
test(pattern, s) ==
  \E a \in 1..Len(pattern) :
     MatchPieces(ToLower(s), [k \in 1..Len(pattern[a]) |-> ToLower(pattern[a][k])], 1, TRUE)

\* Array.prototype.join
RECURSIVE join(_, _)
join(list, sep) ==
  IF list = <<>> THEN ""
  ELSE IF Len(list) = 1 THEN list[1]
  ELSE list[1] \o sep \o join(Tail(list), sep)

(***************************************************************************)
(* detectBuildErrors: the pattern tables and the classifier.               *)
(***************************************************************************)
\* errorPatterns: per environment, the ordered table of
\* {pattern, type, fix, message}; a pattern is its list of alternatives,
\* an alternative the list of literals that .* separates.
errorPatterns ==
  [xcode |-> <<
     [pattern |-> << <<"pod", "not found">>, <<"CocoaPods">> >>,
      type |-> "missing_dependency", fix |-> "pod install",
      message |-> "CocoaPods dependency missing"],
     [pattern |-> << <<"No such module">>, <<"Cannot find">> >>,
      type |-> "import_error", fix |-> "Check imports and module dependencies",
      message |-> "Module import error"],
     [pattern |-> << <<"Build failed">>, <<"error:">> >>,
      type |-> "build_error", fix |-> "Review error details above",
      message |-> "Build compilation error"],
     [pattern |-> << <<"signing", "error">>, <<"provisioning">> >>,
      type |-> "signing_error", fix |-> "Check code signing settings",
      message |-> "Code signing issue"] >>,
   android |-> <<
     [pattern |-> << <<"Gradle", "not found">>, <<"dependency", "not found">> >>,
      type |-> "missing_dependency", fix |-> "./gradlew build --refresh-dependencies",
      message |-> "Gradle dependency missing"],
     [pattern |-> << <<"BUILD FAILED">> >>,
      type |-> "build_error", fix |-> "Review Gradle error details",
      message |-> "Gradle build failed"],
     [pattern |-> << <<"SDK", "not found">>, <<"Android SDK">> >>,
      type |-> "sdk_error", fix |-> "Check Android SDK installation",
      message |-> "Android SDK issue"] >>,
   terminal |-> <<
     [pattern |-> << <<"npm", "not found">>, <<"package", "not found">> >>,
      type |-> "missing_dependency", fix |-> "npm install",
      message |-> "npm package missing"],
     [pattern |-> << <<"python", "not found">>, <<"ModuleNotFoundError">> >>,
      type |-> "missing_dependency", fix |-> "pip install <package>",
      message |-> "Python module missing"],
     [pattern |-> << <<"error:">>, <<"Error:">>, <<"ERROR">> >>,
      type |-> "general_error", fix |-> "Review error message",
      message |-> "General error detected"] >>]

\* successPatterns: per environment, the single success matcher
successPatterns ==
  [xcode    |-> << <<"Build Succeeded">>, <<"BUILD SUCCEEDED">> >>,
   android  |-> << <<"BUILD SUCCESSFUL">> >>,
   terminal |-> << <<"success">>, <<"Success">>, <<"SUCCESS">> >>]

KnownIdes == DOMAIN errorPatterns

\* no fallback: an unknown environment has no patterns
patternsFor_noFallback(env) ==
  IF env \in KnownIdes THEN errorPatterns[env] ELSE <<>>

\* errorPatterns[ide] || errorPatterns.terminal
patternsFor(env) ==
  IF env \in KnownIdes THEN errorPatterns[env] ELSE errorPatterns["terminal"]

\* a loop that stops at the first row whose pattern matches
RECURSIVE matchedRows_firstOnly(_, _, _)
matchedRows_firstOnly(table, text, n) ==
  IF n = 0 THEN <<>>
  ELSE LET rest == matchedRows_firstOnly(table, text, n - 1)
           row  == table[n]
       IN  IF rest = <<>> /\ test(row.pattern, text)
           THEN << [type |-> row.type, message |-> row.message, fix |-> row.fix] >>
           ELSE rest

\* the for-loop of detectBuildErrors over the first n rows of the table:
\* every row whose pattern matches is pushed, in table order
RECURSIVE matchedRows(_, _, _)
matchedRows(table, text, n) ==
  IF n = 0 THEN <<>>
  ELSE LET rest == matchedRows(table, text, n - 1)
           row  == table[n]
       IN  IF test(row.pattern, text)
           THEN Append(rest, [type |-> row.type, message |-> row.message, fix |-> row.fix])
           ELSE rest

\* the success matcher falls back to the terminal one like the error table
isSuccess_fallback(text, env) ==
  IF env \in DOMAIN successPatterns THEN test(successPatterns[env], text)
  ELSE test(successPatterns["terminal"], text)

\* successPatterns[ide]?.test(logText) || false
isSuccess(text, env) ==
  IF env \in DOMAIN successPatterns THEN test(successPatterns[env], text) ELSE FALSE

detectBuildErrors(text, env) ==
  LET patterns    == patternsFor(env)
      errors      == matchedRows(patterns, text, Len(patterns))
      suggestions == [k \in 1..Len(errors) |-> errors[k].fix]
      success     == isSuccess(text, env)
  IN  [success     |-> success,
       errors      |-> errors,
       suggestions |-> suggestions,
       summary     |-> IF success THEN "Build succeeded!"
                       ELSE IF Len(errors) > 0
                       THEN "Found " \o ToString(Len(errors)) \o " error(s). Suggestions: "
                            \o join(suggestions, ", ")
                       ELSE "No specific errors detected, but build may have failed."]


(***************************************************************************)
(* The preferences file ~/.daisy/preferences.json, as the two readers see  *)
(* it: absent, not valid JSON, or an object whose automation section, mode *)
(* and auto_approve_patterns may each be absent.                           *)
(***************************************************************************)
PrefsFile(file, automation, mode, listed, patterns) ==
  [file |-> file, automation |-> automation, mode |-> mode,
   listed |-> listed, auto_approve_patterns |-> patterns]

MissingPrefs      == PrefsFile("missing", FALSE, "undefined", FALSE, <<>>)
MalformedPrefs    == PrefsFile("malformed", FALSE, "undefined", FALSE, <<>>)
NoAutomationPrefs == PrefsFile("ok", FALSE, "undefined", FALSE, <<>>)

StoredModes == {"undefined", "autonomous", "preview"}

\* readFile + JSON.parse succeed
readable(p) == p.file = "ok"

\* loadAutomationMode without its try/catch: the exception of readFile or
\* JSON.parse reaches the caller
loadAutomationMode_uncaught(p) ==
  IF ~readable(p) THEN "Error"
  ELSE IF p.automation /\ p.mode # "undefined" THEN p.mode
  ELSE "autonomous"

\* loadAutomationMode: prefs.automation?.mode || "autonomous", and
\* "autonomous" when reading or parsing throws
loadAutomationMode(p) ==
  IF ~readable(p) THEN "autonomous"
  ELSE IF p.automation /\ p.mode # "undefined" THEN p.mode
  ELSE "autonomous"

\* prefs.automation?.auto_approve_patterns || []
autoApprovePatterns(p) ==
  IF p.automation /\ p.listed THEN p.auto_approve_patterns ELSE <<>>

\* shouldAutoApprove whose catch block approves
shouldAutoApprove_failOpen(fix, p) ==
  IF ~readable(p) THEN TRUE
  ELSE \E k \in 1..Len(autoApprovePatterns(p)) : includes(fix, autoApprovePatterns(p)[k])

\* shouldAutoApprove: autoApprovePatterns.some(pattern => action.includes(pattern)),
\* and false when reading or parsing throws
shouldAutoApprove(fix, p) ==
  IF ~readable(p) THEN FALSE
  ELSE \E k \in 1..Len(autoApprovePatterns(p)) : includes(fix, autoApprovePatterns(p)[k])

(***************************************************************************)
(* Inputs the model draws from.                                            *)
(***************************************************************************)
\* ide argument: the three tags of the schema and one tag outside it
Ides == {"xcode", "android", "terminal", "vscode"}
Actions == {"build", "run", "test"}
\* projectPath argument; "" is the absent (falsy) path
ProjectPaths == {"", "/app"}
\* previewMode argument
PreviewModes == {"undefined", "true", "false"}

\* preferences files the orchestrator runs against
AllowLists == { <<>>, <<"install">>, <<"Check", "pod install">> }
BuildPrefs ==
  {MissingPrefs, MalformedPrefs, NoAutomationPrefs,
   PrefsFile("ok", TRUE, "preview", FALSE, <<>>),
   PrefsFile("ok", TRUE, "autonomous", TRUE, <<"install">>)}
  \cup { PrefsFile("ok", TRUE, "preview", TRUE, l) : l \in AllowLists }

\* message of the exception an exec call throws
ErrorMessages == {"Command failed"}

\* what the Xcode console shows when the build log is captured
XcodeConsoleTexts ==
  { "",
    "Build Succeeded",
    "CocoaPods",
    "pod\nnot found",
    "error: CocoaPods BUILD SUCCEEDED",
    "error: provisioning",
    "Could not capture Xcode console. Make sure Xcode is open and build has run." }

\* stdout and stderr of the shell command of a terminal build
TerminalOutputs ==
  { [stdout |-> "", stderr |-> ""],
    [stdout |-> "Success", stderr |-> ""],
    [stdout |-> "", stderr |-> "npm ERR! not found"],
    [stdout |-> "success", stderr |-> "error: package x not found"] }

(***************************************************************************)
(* State.                                                                  *)
(***************************************************************************)
VARIABLES
  args,            \* arguments of the buildWithRetry call
  prefs,           \* current content of the preferences file
  pc,              \* position of the call: start, loop, build, gate, done
  usePreviewMode,  \* effective mode of the call
  attempt, lastError, actionsTaken, previewActions,   \* locals of the call
  logText, errorData,      \* log and classification of the current attempt
  result,          \* what the call returned
  executed,        \* history: executor calls issued, in order
  seen,            \* history: per attempt, how the build step ended
  call, ret,       \* a direct call of one of the pure functions and its value
  history          \* history: the direct calls of detectBuildErrors and their values

vars == <<args, prefs, pc, usePreviewMode, attempt, lastError,
          actionsTaken, previewActions, logText, errorData, result, executed,
          seen, call, ret, history>>

NoData  == [success |-> FALSE, errors |-> <<>>, suggestions |-> <<>>, summary |-> ""]
NoCall  == [fn |-> "none"]
NoRet   == [done |-> FALSE]
Running == [status |-> "running"]

ide         == args.ide
action      == args.action
maxRetries  == args.maxRetries
projectPath == args.projectPath
previewMode == args.previewMode

Init ==
  /\ args \in [ide : Ides, action : Actions, maxRetries : 0..MaxRetriesBound,
               projectPath : ProjectPaths, previewMode : PreviewModes]
  /\ prefs \in BuildPrefs
  /\ pc = "start"
  /\ usePreviewMode = FALSE
  /\ attempt = 0
  /\ lastError = [kind |-> "null"]
  /\ actionsTaken = <<>>
  /\ previewActions = <<>>
  /\ logText = ""
  /\ errorData = NoData
  /\ result = Running
  /\ executed = <<>>
  /\ seen = <<>>
  /\ call = NoCall
  /\ ret = NoRet
  /\ history = <<>>

pureVars == <<call, ret, history>>

(***************************************************************************)
(* Executor capabilities: what each call adds to the record of issued      *)
(* calls, and the text it returns.                                         *)
(***************************************************************************)
\* role is "build" for the calls of the build step, "fix" for a remediation
Issued(role, tool, arg) ==
  [attempt |-> attempt, role |-> role, tool |-> tool, arg |-> arg, threw |-> FALSE]

\* the same call when it ends with an exception instead of a result
Thrown(issued) == [issued EXCEPT !.threw = TRUE]

\* runTerminalCommand: the text returned for stdout and stderr
runTerminalCommand(command, out) ==
  "Command: " \o command \o "\nOutput:\n" \o out.stdout \o "\n" \o out.stderr

\* captureBuildLog for xcode when osascript returned the console text
captureBuildLog(console) ==
  "Build log captured:\n" \o (IF console = "" THEN "No log text captured" ELSE console)

\* captureBuildLog for xcode when osascript threw: the error is folded into the text
captureBuildLogError(message) == "Error capturing build log: " \o message

\* texts captureBuildLog can hand to the classifier
CapturedLogs ==
  { captureBuildLog(c) : c \in XcodeConsoleTexts }
  \cup { captureBuildLogError(m) : m \in ErrorMessages }

\* texts the shell command of a terminal build can hand to the classifier
TerminalLogs == { runTerminalCommand(a, out) : a \in Actions, out \in TerminalOutputs }

\* a captured xcode log with detectBuildErrors({logText, ide: "xcode"}) of it
\* (JSON.stringify then JSON.parse returns the same booleans, strings and lists)
xcodeErrorData ==
  { [logText |-> log, errorData |-> detectBuildErrors(log, "xcode")] : log \in CapturedLogs }

\* a terminal output with detectBuildErrors({logText, ide: "terminal"}) of it
terminalErrorData ==
  { [logText |-> log, errorData |-> detectBuildErrors(log, "terminal")] : log \in TerminalLogs }

\* history entries: how the build step of an attempt ended
Classified(data) ==
  [kind |-> "classified", success |-> data.success, matched |-> Len(data.errors)]
Threw   == [kind |-> "threw", success |-> FALSE, matched |-> 0]
Skipped == [kind |-> "skipped", success |-> FALSE, matched |-> 0]

\* the keyboard shortcut of the action: cmd+b for build, cmd+r for run, none for test
keysFor(a) ==
  IF a = "build" THEN << Issued("build", "keyPress", "cmd+b") >>
  ELSE IF a = "run" THEN << Issued("build", "keyPress", "cmd+r") >>
  ELSE <<>>

Return(r) ==
  /\ result' = r
  /\ pc' = "done"

\* an exception that leaves buildWithRetry lands in the catch block of the
\* tool-call handler, which answers with the error text
Escaped(message) == [status |-> "Error", message |-> "Error: " \o message, isError |-> TRUE]

\* a catch block that swallows the exception without a trail entry
Caught_silent(message) ==
  /\ lastError' = [kind |-> "message", message |-> message]
  /\ actionsTaken' = actionsTaken
  /\ pc' = "loop"
  /\ result' = result

\* an attempt without try/catch: the exception leaves buildWithRetry
Caught_rethrown(message) ==
  /\ lastError' = lastError
  /\ actionsTaken' = actionsTaken
  /\ Return(Escaped(message))

\* the catch block of the attempt: the call goes on
Caught(message) ==
  /\ lastError' = [kind |-> "message", message |-> message]
  /\ actionsTaken' = Append(actionsTaken, "Error: " \o message)
  /\ pc' = "loop"
  /\ result' = result

\* Success that reports the attempt counter before its increment
Success_previous ==
  [status |-> "Success", attempt |-> attempt - 1, actionsTaken |-> actionsTaken,
   isError |-> FALSE]

Success ==
  [status |-> "Success", attempt |-> attempt, actionsTaken |-> actionsTaken,
   isError |-> FALSE]

\* the function falls off its end without a return statement
Exhausted_noReturn == Running

\* the failure report without the trail
Exhausted_noTrail ==
  [status |-> "Exhausted", maxRetries |-> maxRetries, lastError |-> lastError,
   actionsTaken |-> <<>>, isError |-> TRUE]

Exhausted ==
  [status |-> "Exhausted", maxRetries |-> maxRetries, lastError |-> lastError,
   actionsTaken |-> actionsTaken, isError |-> TRUE]

Suspended(firstError, actions) ==
  [status |-> "Suspended", mode |-> "preview",
   message |-> "Action required: " \o firstError.fix,
   reason |-> firstError.message, error |-> firstError, actions |-> actions,
   prompt |-> "Should I execute: " \o firstError.fix \o "? (This will fix: "
              \o firstError.message \o ")",
   isError |-> FALSE]

(***************************************************************************)
(* buildWithRetry, one action per stretch between two awaits that matter.  *)
(***************************************************************************)
\* the stored mode alone decides, the argument is not looked at
effectiveMode_prefsOnly(pm, p) == loadAutomationMode(p) = "preview"

\* previewMode !== undefined ? previewMode : (await loadAutomationMode()) === "preview"
effectiveMode(pm, p) ==
  IF pm # "undefined" THEN pm = "true" ELSE loadAutomationMode(p) = "preview"

\* a mode read that throws whenever the preferences file cannot be read
modeReadThrows_unreadable(pm, p) == pm = "undefined" /\ ~readable(p)

\* the call of loadAutomationMode on line 952 is outside the try of the
\* loop: an exception it let through would leave buildWithRetry
modeReadThrows(pm, p) == pm = "undefined" /\ loadAutomationMode(p) = "Error"

Begin ==
  /\ pc = "start"
  /\ IF modeReadThrows(previewMode, prefs)
     THEN /\ Return(Escaped("preferences"))
          /\ UNCHANGED usePreviewMode
     ELSE /\ usePreviewMode' = effectiveMode(previewMode, prefs)
          /\ pc' = "loop"
          /\ UNCHANGED result
  /\ UNCHANGED <<args, prefs, attempt, lastError, actionsTaken,
                 previewActions, logText, errorData, executed, seen, pureVars>>

\* while (attempt <= maxRetries)
loopCondition_inclusive(a, n) == a <= n

\* while (attempt < maxRetries)
loopCondition(a, n) == a < n

\* trail entries numbered from 0
attemptEntry_zeroBased(n, act) ==
  "Attempt " \o ToString(n - 1) \o ": Executing " \o act \o "..."

\* `Attempt ${attempt}: Executing ${action}...`
attemptEntry(n, act) ==
  "Attempt " \o ToString(n) \o ": Executing " \o act \o "..."

\* head of the loop: attempt++ and the 'Attempt i' trail entry
StartAttempt ==
  /\ pc = "loop"
  /\ loopCondition(attempt, maxRetries)
  /\ attempt' = attempt + 1
  /\ actionsTaken' = Append(actionsTaken, attemptEntry(attempt + 1, action))
  /\ logText' = ""
  /\ errorData' = NoData
  /\ pc' = "build"
  /\ UNCHANGED <<args, prefs, usePreviewMode, lastError, previewActions,
                 result, executed, seen, pureVars>>

\* loop left: all retries exhausted
ReturnExhausted ==
  /\ pc = "loop"
  /\ ~loopCondition(attempt, maxRetries)
  /\ Return(Exhausted)
  /\ UNCHANGED <<args, prefs, usePreviewMode, attempt, lastError,
                 actionsTaken, previewActions, logText, errorData, executed, seen, pureVars>>

\* the second matched error when there is one
firstErrorOf_second(data) == data.errors[IF Len(data.errors) > 1 THEN 2 ELSE 1]

\* the last matched error instead of the first
firstErrorOf_last(data) == data.errors[Len(data.errors)]

\* const firstError = errorData.errors[0]
firstErrorOf(data) == data.errors[1]

\* success only when no error pattern matched
succeeded_noErrors(data) == data.success /\ Len(data.errors) = 0

\* if (errorData.success)
succeeded(data) == data.success

\* the fix branch taken on the last attempt too
fixCondition_lastToo(data, a, n) == Len(data.errors) > 0

\* errorData.errors.length > 0 && attempt < maxRetries
fixCondition(data, a, n) == Len(data.errors) > 0 /\ a < n

\* xcode: openApplication or keyPress throws
XcodeBuildThrows ==
  /\ pc = "build"
  /\ ide = "xcode"
  /\ \E stage \in {"openApplication", "keyPress"}, m \in ErrorMessages :
        /\ stage = "keyPress" => keysFor(action) # <<>>
        /\ executed' = executed \o
              (IF stage = "keyPress"
               THEN << Issued("build", "openApplication", "Xcode"), Thrown(keysFor(action)[1]) >>
               ELSE << Thrown(Issued("build", "openApplication", "Xcode")) >>)
        /\ seen' = Append(seen, Threw)
        /\ Caught(m)
  /\ UNCHANGED <<args, prefs, usePreviewMode, attempt, previewActions,
                 logText, errorData, pureVars>>

\* xcode: open, shortcut, capture the log, classify it, and branch on the result
XcodeBuild ==
  /\ pc = "build"
  /\ ide = "xcode"
  /\ \E captured \in xcodeErrorData :
       LET log  == captured.logText
           data == captured.errorData
       IN
        /\ executed' = executed \o << Issued("build", "openApplication", "Xcode") >>
                       \o keysFor(action) \o << Issued("build", "captureBuildLog", "xcode") >>
        /\ logText' = log
        /\ errorData' = data
        /\ seen' = Append(seen, Classified(data))
        /\ IF succeeded(data)
           THEN /\ Return(Success)
                /\ UNCHANGED <<actionsTaken, lastError>>
           ELSE IF fixCondition(data, attempt, maxRetries)
           THEN /\ actionsTaken' = Append(actionsTaken,
                                     "Error detected: " \o firstErrorOf(data).message)
                /\ pc' = "gate"
                /\ UNCHANGED <<result, lastError>>
           ELSE /\ lastError' = [kind |-> "errorData", data |-> data]
                /\ pc' = "loop"
                /\ UNCHANGED <<result, actionsTaken>>
  /\ UNCHANGED <<args, prefs, usePreviewMode, attempt, previewActions,
                 pureVars>>

\* the gate without the mode test
suspends_anyMode(preview, approve) == ~approve

\* usePreviewMode && !shouldAutoApprove
suspends(preview, approve) == preview /\ ~approve

\* a remediation that runs whatever the fix string says
remediation_anyFix(fixAction, path) == IF path # "" THEN fixAction ELSE ""

\* a remediation that knows npm install only
remediation_npmOnly(fixAction, path) ==
  IF includes(fixAction, "npm install") /\ path # "" THEN "npm install" ELSE ""

\* the remediation the else-branch runs for a fix: pod install or npm install
\* inside projectPath, or nothing
remediation(fixAction, path) ==
  IF includes(fixAction, "pod install") /\ path # "" THEN "pod install"
  ELSE IF includes(fixAction, "npm install") /\ path # "" THEN "npm install"
  ELSE ""

\* xcode: the approval decision on errors[0].fix and the remediation
ApprovalGate ==
  /\ pc = "gate"
  /\ LET firstError == firstErrorOf(errorData)
         fixAction  == firstError.fix
         approve    == shouldAutoApprove(fixAction, prefs)
         fix        == remediation(fixAction, projectPath)
     IN  IF suspends(usePreviewMode, approve)
         THEN /\ previewActions' = Append(previewActions,
                    [action |-> fixAction, reason |-> firstError.message, autoApprove |-> FALSE])
              /\ Return(Suspended(firstError, previewActions'))
              /\ UNCHANGED <<actionsTaken, lastError, executed>>
         ELSE IF fix # ""
         THEN /\ UNCHANGED <<previewActions, result>>
              /\ \/ /\ executed' = Append(executed, Issued("fix", "runTerminalCommand",
                                          "cd \"" \o projectPath \o "\" && " \o fix))
                    /\ actionsTaken' = Append(actionsTaken, "Applying fix: " \o fix)
                    /\ lastError' = [kind |-> "errorData", data |-> errorData]
                    /\ pc' = "loop"
                 \/ \E m \in ErrorMessages :
                    /\ executed' = Append(executed, Thrown(Issued("fix", "runTerminalCommand",
                                          "cd \"" \o projectPath \o "\" && " \o fix)))
                    /\ lastError' = [kind |-> "message", message |-> m]
                    /\ actionsTaken' = actionsTaken
                          \o << "Applying fix: " \o fix, "Error: " \o m >>
                    /\ pc' = "loop"
         ELSE /\ lastError' = [kind |-> "errorData", data |-> errorData]
              /\ pc' = "loop"
              /\ UNCHANGED <<previewActions, result, actionsTaken, executed>>
  /\ UNCHANGED <<args, prefs, usePreviewMode, attempt, logText,
                 errorData, seen, pureVars>>

\* android: the application is opened, nothing is built or classified
AndroidBuild ==
  /\ pc = "build"
  /\ ide = "android"
  /\ \/ /\ executed' = Append(executed, Issued("build", "openApplication", "Android Studio"))
        /\ lastError' = [kind |-> "message",
                         message |-> "Android Studio automation not fully implemented"]
        /\ seen' = Append(seen, Skipped)
        /\ pc' = "loop"
        /\ UNCHANGED <<actionsTaken, result>>
     \/ \E m \in ErrorMessages :
        /\ executed' = Append(executed,
                               Thrown(Issued("build", "openApplication", "Android Studio")))
        /\ seen' = Append(seen, Threw)
        /\ Caught(m)
  /\ UNCHANGED <<args, prefs, usePreviewMode, attempt, previewActions,
                 logText, errorData, pureVars>>

\* projectPath && action === "build"
terminalRuns(path, a) == path # "" /\ a = "build"

\* any other ide: the shell command when there is a project path and the
\* action is build, classified with the terminal tables
TerminalBuild ==
  /\ pc = "build"
  /\ ide \notin {"xcode", "android"}
  /\ IF terminalRuns(projectPath, action)
     THEN \/ \E out \in TerminalOutputs, ran \in terminalErrorData :
                LET log  == ran.logText
                    data == ran.errorData
                IN  /\ log = runTerminalCommand(action, out)
                    /\ executed' = Append(executed,
                                           Issued("build", "runTerminalCommand", action))
                    /\ logText' = log
                    /\ errorData' = data
                    /\ seen' = Append(seen, Classified(data))
                    /\ IF succeeded(data)
                       THEN /\ Return(Success)
                            /\ UNCHANGED <<actionsTaken, lastError>>
                       ELSE /\ lastError' = [kind |-> "errorData", data |-> data]
                            /\ pc' = "loop"
                            /\ UNCHANGED <<result, actionsTaken>>
          \/ \E m \in ErrorMessages :
                /\ executed' = Append(executed,
                                       Thrown(Issued("build", "runTerminalCommand", action)))
                /\ seen' = Append(seen, Threw)
                /\ Caught(m)
                /\ UNCHANGED <<logText, errorData>>
     ELSE /\ seen' = Append(seen, Skipped)
          /\ pc' = "loop"
          /\ UNCHANGED <<executed, logText, errorData, result, actionsTaken, lastError>>
  /\ UNCHANGED <<args, prefs, usePreviewMode, attempt, previewActions,
                 pureVars>>

\* the steps of the call
BuildWithRetryStep ==
  \/ Begin
  \/ StartAttempt
  \/ ReturnExhausted
  \/ XcodeBuildThrows
  \/ XcodeBuild
  \/ ApprovalGate
  \/ AndroidBuild
  \/ TerminalBuild

\* the preferences file is external: it can be rewritten while the call runs
PrefsChange ==
  /\ pc # "done"
  /\ \E p \in BuildPrefs :
        /\ p # prefs
        /\ prefs' = p
  /\ UNCHANGED <<args, pc, usePreviewMode, attempt, lastError, actionsTaken,
                 previewActions, logText, errorData, result, executed, seen, pureVars>>

(***************************************************************************)
(* Direct calls of shouldAutoApprove: the fix string and the preferences   *)
(* file are drawn from the sets below, the call computes the answer.       *)
(***************************************************************************)
SeqsUpTo(S, n) == UNION { [1..k -> S] : k \in 0..n }

\* allowlist entries and fix strings tried
PatternPool == {"pod install", "Pod install", "install", "npm install", "", "rm"}
FixPool == {"pod install", "npm install", "pip install <package>", "rm -rf /", "",
            "cd /app && pod install"}

ApprovePrefs ==
  {MissingPrefs, MalformedPrefs, NoAutomationPrefs,
   PrefsFile("ok", TRUE, "preview", FALSE, <<>>)}
  \cup { PrefsFile("ok", TRUE, "preview", TRUE, l) : l \in SeqsUpTo(PatternPool, MaxPatterns) }

Idle ==
  /\ args = [ide |-> "terminal", action |-> "build", maxRetries |-> 0,
             projectPath |-> "", previewMode |-> "undefined"]
  /\ pc = "idle"
  /\ usePreviewMode = FALSE
  /\ attempt = 0
  /\ lastError = [kind |-> "null"]
  /\ actionsTaken = <<>>
  /\ previewActions = <<>>
  /\ logText = ""
  /\ errorData = NoData
  /\ result = Running
  /\ executed = <<>>
  /\ seen = <<>>
  /\ history = <<>>

InitApprove ==
  /\ Idle
  /\ prefs \in ApprovePrefs
  /\ call \in { [fn |-> "shouldAutoApprove", action |-> f] : f \in FixPool }
  /\ ret = NoRet

CallShouldAutoApprove ==
  /\ call.fn = "shouldAutoApprove"
  /\ ~ret.done
  /\ ret' = [done |-> TRUE, value |-> shouldAutoApprove(call.action, prefs)]
  /\ UNCHANGED <<args, prefs, pc, usePreviewMode, attempt, lastError,
                 actionsTaken, previewActions, logText, errorData, result, executed,
                 seen, call, history>>

NextApprove == CallShouldAutoApprove

SpecApprove == InitApprove /\ [][NextApprove]_vars

(***************************************************************************)
(* Direct calls of detectBuildErrors (the detect_build_errors tool), one   *)
(* after the other, on log texts and environment tags drawn from the sets  *)
(* below.                                                                  *)
(***************************************************************************)
ClassifierLogs ==
  { "",
    "error: CocoaPods Build Succeeded",
    "BUILD FAILED: Android SDK",
    "npm not found\nERROR success",
    "Error: pod not found. Please run pod install",
    "pod\nnot found",
    "ModuleNotFoundError: package x not found" }

InitClassify ==
  /\ Idle
  /\ prefs = MissingPrefs
  /\ call = NoCall
  /\ ret = NoRet

\* every input of a direct call with detectBuildErrors of it
classifierData ==
  { [logText |-> text, ide |-> env, value |-> detectBuildErrors(text, env)] :
       text \in ClassifierLogs, env \in Ides }

\* an errors array that lives outside the function and is never emptied
errorsOfCall_shared(kept, found) == kept \o found

\* const errors = [] inside the function: a call starts from an empty
\* array, whatever the calls before it pushed (kept)
errorsOfCall(kept, found) == found

CallDetectBuildErrors ==
  /\ Len(history) < MaxCalls
  /\ \E c \in classifierData :
        LET kept  == IF ret.done THEN ret.value.errors ELSE <<>>
            value == [c.value EXCEPT !.errors = errorsOfCall(kept, c.value.errors)]
        IN
        /\ call' = [fn |-> "detectBuildErrors", logText |-> c.logText, ide |-> c.ide]
        /\ ret' = [done |-> TRUE, value |-> value]
        /\ history' = Append(history, [logText |-> c.logText, ide |-> c.ide, value |-> value])
  /\ UNCHANGED <<args, prefs, pc, usePreviewMode, attempt, lastError,
                 actionsTaken, previewActions, logText, errorData, result, executed,
                 seen>>

NextClassify == CallDetectBuildErrors

SpecClassify == InitClassify /\ [][NextClassify]_vars

(***************************************************************************)
(* The readers of the preferences file: direct calls of loadAutomationMode *)
(* and shouldAutoApprove, and the first step of a buildWithRetry call,     *)
(* against the same file.                                                  *)
(***************************************************************************)
PrefsCalls ==
  { [fn |-> "shouldAutoApprove", action |-> f] : f \in FixPool }
  \cup { [fn |-> "loadAutomationMode"] }

InitPrefs ==
  /\ args \in { [ide |-> "xcode", action |-> "build", maxRetries |-> 0,
                 projectPath |-> "", previewMode |-> pm] : pm \in PreviewModes }
  /\ prefs \in ApprovePrefs
  /\ pc = "start"
  /\ usePreviewMode = FALSE
  /\ attempt = 0
  /\ lastError = [kind |-> "null"]
  /\ actionsTaken = <<>>
  /\ previewActions = <<>>
  /\ logText = ""
  /\ errorData = NoData
  /\ result = Running
  /\ executed = <<>>
  /\ seen = <<>>
  /\ call \in PrefsCalls
  /\ ret = NoRet
  /\ history = <<>>

CallLoadAutomationMode ==
  /\ call.fn = "loadAutomationMode"
  /\ ~ret.done
  /\ ret' = [done |-> TRUE, value |-> loadAutomationMode(prefs)]
  /\ UNCHANGED <<args, prefs, pc, usePreviewMode, attempt, lastError,
                 actionsTaken, previewActions, logText, errorData, result, executed,
                 seen, call, history>>

NextPrefs ==
  \/ CallLoadAutomationMode
  \/ CallShouldAutoApprove
  \/ Begin

SpecPrefs == InitPrefs /\ [][NextPrefs]_vars

Next ==
  \/ Begin
  \/ StartAttempt
  \/ ReturnExhausted
  \/ XcodeBuildThrows
  \/ XcodeBuild
  \/ ApprovalGate
  \/ AndroidBuild
  \/ TerminalBuild
  \/ PrefsChange

Spec == Init /\ [][Next]_vars

\* every executor call returns or throws, so the call always takes its next step
FairSpec == Spec /\ WF_vars(BuildWithRetryStep)

TypeOK ==
  /\ pc \in {"idle", "start", "loop", "build", "gate", "done"}
  /\ attempt \in 0..MaxRetriesBound
  /\ usePreviewMode \in BOOLEAN
  /\ result.status \in {"running", "Success", "Exhausted", "Suspended"}


(***************************************************************************)
(* Vocabulary of the properties.                                           *)
(***************************************************************************)
Outcomes == {"Success", "Exhausted", "Suspended"}
Returned == pc = "done"

\* sub occurs in s: s is some prefix, then sub, then some suffix
OccursIn(sub, s) ==
  \E i \in 0..Len(s) :
     /\ i + Len(sub) <= Len(s)
     /\ SubSeq(s, 1, i) \o sub \o SubSeq(s, i + Len(sub) + 1, Len(s)) = s

\* the entries of automation.auto_approve_patterns of a readable file
ListedEntries(p) ==
  IF p.file = "ok" /\ p.automation /\ p.listed
  THEN { p.auto_approve_patterns[k] : k \in 1..Len(p.auto_approve_patterns) }
  ELSE {}

Allowlisted(fix, p) == \E e \in ListedEntries(p) : OccursIn(e, fix)

\* executor calls issued so far, by role and tool
CallsOf(role, tool) ==
  { k \in 1..Len(executed) : executed[k].role = role /\ executed[k].tool = tool }
FixCalls == { k \in 1..Len(executed) : executed[k].role = "fix" }

\* this step issues a remediation command
FixExecutedInStep ==
  /\ Len(executed') = Len(executed) + 1
  /\ executed'[Len(executed')].role = "fix"

\* this step is the approval decision of the call
GateStep == pc = "gate" /\ pc' # "gate"

(***************************************************************************)
(* C1 - Bounded retries: for maxRetries = n >= 1, whatever the             *)
(* environment, the mode, the build outputs and the exceptions, a call     *)
(* starts at most n attempts and issues each build call (open, shortcut,   *)
(* log capture, shell build command) at most n times.                      *)
(***************************************************************************)
C1_BoundedRetries ==
  maxRetries >= 1 =>
    /\ attempt <= maxRetries
    /\ Len(seen) <= maxRetries
    /\ \A tool \in {"openApplication", "keyPress", "captureBuildLog", "runTerminalCommand"} :
          Cardinality(CallsOf("build", tool)) <= maxRetries

\* a call that used its whole budget, exceptions included
C1_Witness ==
  /\ Returned
  /\ maxRetries = MaxRetriesBound
  /\ attempt = maxRetries
  /\ \E k \in 1..Len(seen) : seen[k].kind = "threw"
  /\ Cardinality(CallsOf("build", "openApplication")) = maxRetries

(***************************************************************************)
(* C2 - Termination: when every executor call returns or throws, the call  *)
(* eventually returns, and what it returns is one of Success, Exhausted    *)
(* and Suspended.                                                          *)
(***************************************************************************)
C2_Termination == <>(Returned /\ result.status \in Outcomes)

\* a call that returned after a remediation was run
C2_Witness == Returned /\ result.status = "Exhausted" /\ FixCalls # {}

(***************************************************************************)
(* C3 - Success short-circuits: when the classification of attempt k is a  *)
(* success, the call has returned Success reporting attempt k, k is the    *)
(* last attempt started, and no call was issued after it, remediation      *)
(* included.                                                               *)
(***************************************************************************)
C3_SuccessShortCircuits ==
  \A k \in 1..Len(seen) :
     seen[k].success =>
        /\ k = Len(seen)
        /\ attempt = k
        /\ Returned
        /\ result.status = "Success"
        /\ result.attempt = k
        /\ \A j \in 1..Len(executed) :
              /\ executed[j].attempt <= k
              /\ executed[j].attempt = k => executed[j].role = "build"

\* success on an attempt that is not the last of the budget
C3_Witness ==
  /\ Returned
  /\ result.status = "Success"
  /\ attempt >= 2
  /\ attempt < maxRetries

(***************************************************************************)
(* C4 - Autonomous mode never suspends: once the effective mode is         *)
(* autonomous, the call never returns Suspended, whatever was detected     *)
(* and whatever the allowlist holds.                                       *)
(***************************************************************************)
C4_AutonomousNeverSuspends ==
  (pc # "start" /\ ~usePreviewMode) => result.status # "Suspended"

\* autonomous call that passed the gate with a fix no allowlist entry covers
C4_Witness ==
  /\ ~usePreviewMode
  /\ pc = "loop"
  /\ attempt >= 1
  /\ seen[attempt].matched > 0
  /\ attempt < maxRetries
  /\ ~Allowlisted(errorData.errors[1].fix, prefs)

(***************************************************************************)
(* C5 - Preview mode suspends: in preview mode with an empty allowlist,    *)
(* an attempt classified as a failure with at least one matched error      *)
(* makes the call return Suspended, in every environment and on every      *)
(* attempt up to maxRetries, and its fix is not executed.                  *)
(***************************************************************************)
C5_PreviewSuspends ==
  [][ ( /\ pc \in {"build", "gate"}
        /\ pc' \in {"loop", "done"}
        /\ usePreviewMode
        /\ ListedEntries(prefs) = {}
        /\ ~errorData'.success
        /\ Len(errorData'.errors) > 0 )
      => /\ result'.status = "Suspended"
         /\ ~FixExecutedInStep ]_vars

(***************************************************************************)
(* C6 - No unapproved remediation in preview mode: in preview mode a step  *)
(* issues a remediation command only if some entry of                      *)
(* auto_approve_patterns occurs in the fix of the first matched error.     *)
(***************************************************************************)
C6_NoUnapprovedRemediation ==
  [][ (usePreviewMode /\ FixExecutedInStep)
        => Allowlisted(errorData.errors[1].fix, prefs) ]_vars

\* a remediation was run in preview mode
C6_Witness == usePreviewMode /\ FixCalls # {} /\ pc = "loop"

(***************************************************************************)
(* C7 - Allowlist substring match: shouldAutoApprove(action) is true       *)
(* exactly when some entry of auto_approve_patterns occurs in action as a  *)
(* case-sensitive substring; with an empty, absent or unreadable list it   *)
(* is false for every action.                                              *)
(***************************************************************************)
C7_AllowlistSubstring ==
  (call.fn = "shouldAutoApprove" /\ ret.done) =>
     /\ ret.value <=> \E e \in ListedEntries(prefs) : OccursIn(e, call.action)
     /\ ListedEntries(prefs) = {} => ~ret.value

\* approved by an entry that occurs inside the action, not at its start
C7_Witness ==
  /\ call.fn = "shouldAutoApprove"
  /\ ret.done
  /\ ret.value
  /\ call.action = "cd /app && pod install"
  /\ prefs.auto_approve_patterns = <<"Pod install", "install">>

(***************************************************************************)
(* C8 - Suspended payload: a Suspended result reports the fix of the first *)
(* matched error of the current attempt as pending action, that error's    *)
(* message as reason, and exactly that one action; in preview mode the     *)
(* gate never suspends an allowlisted fix, runs it when it is pod install  *)
(* or npm install and a projectPath was supplied, and returns Suspended    *)
(* with the fix as pending action when it is not allowlisted.              *)
(***************************************************************************)
SuspendedPayload ==
  result.status = "Suspended" =>
     LET e == errorData.errors[1] IN
       /\ result.actions = << [action |-> e.fix, reason |-> e.message, autoApprove |-> FALSE] >>
       /\ result.message = "Action required: " \o e.fix
       /\ result.reason = e.message
       /\ result.error = e

Installable(fix) == OccursIn("pod install", fix) \/ OccursIn("npm install", fix)

HasSuccessMarker(text) ==
  IF ide = "xcode" THEN OccursIn("build succeeded", ToLower(text))
  ELSE OccursIn("success", ToLower(text))

C9_SuccessAuthoritative ==
  ( /\ attempt = 1
    /\ Len(seen) = 1
    /\ seen[1].kind = "classified"
    /\ HasSuccessMarker(logText) )
  => /\ Returned
     /\ result.status = "Success"
     /\ result.attempt = 1
     /\ FixCalls = {}

\* preview call whose first log holds the marker and matches two error patterns
C9_Witness ==
  /\ Returned
  /\ attempt = 1
  /\ usePreviewMode
  /\ result.status = "Success"
  /\ Len(errorData.errors) = 2
  /\ maxRetries > 1

(***************************************************************************)
(* C10 - Unclassified failures exhaust the budget: for maxRetries = n >= 1,*)
(* when every attempt was classified and matched neither the success       *)
(* marker nor an error pattern, the call returns Exhausted after exactly n *)
(* attempts, with a trail of exactly n entries and no remediation.         *)
(***************************************************************************)
AllUnclassified ==
  \A k \in 1..Len(seen) :
     seen[k].kind = "classified" /\ ~seen[k].success /\ seen[k].matched = 0

C10_UnclassifiedExhaust ==
  (Returned /\ maxRetries >= 1 /\ AllUnclassified) =>
     /\ result.status = "Exhausted"
     /\ attempt = maxRetries
     /\ Len(seen) = maxRetries
     /\ Len(result.actionsTaken) = maxRetries
     /\ FixCalls = {}

\* preview call with the largest budget, every log unmatched
C10_Witness ==
  /\ Returned
  /\ maxRetries = MaxRetriesBound
  /\ AllUnclassified
  /\ usePreviewMode
  /\ ide = "xcode"

(***************************************************************************)
(* C11 - Remediation then retry: with ide = xcode, autonomous mode,        *)
(* maxRetries = 3 and a projectPath, when the log of attempt 1 holds the   *)
(* CocoaPods marker and no success marker, the attempt reaches the fix     *)
(* decision, which issues cd "<projectPath>" && pod install and leaves the *)
(* call running; the build step of attempt 2 is then executed, after the   *)
(* pod install and after every call of attempt 1.                          *)
(***************************************************************************)
HasCocoaPodsMarker(text) == OccursIn("cocoapods", ToLower(text))

\* attempt 1 of an autonomous xcode call with a budget of 3
ScenarioA == ide = "xcode" /\ pc # "start" /\ ~usePreviewMode /\ maxRetries = 3 /\ attempt = 1

MarkedLog(text) == HasCocoaPodsMarker(text) /\ ~HasSuccessMarker(text)

\* pod install was issued once attempt 1 had made its build calls, and a
\* build call of attempt 2 follows it
PodInstallBetweenAttempts ==
  \E k \in 1..Len(executed) :
     /\ executed[k].role = "fix"
     /\ executed[k].attempt = 1
     /\ executed[k].arg = "cd \"" \o projectPath \o "\" && pod install"
     /\ \A j \in 1..(k - 1) : executed[j].attempt = 1 /\ executed[j].role = "build"
     /\ \A j \in (k + 1)..Len(executed) : executed[j].attempt >= 2
     /\ \E j \in (k + 1)..Len(executed) : executed[j].attempt = 2 /\ executed[j].role = "build"

\* the build step of attempt 1 ends with such a log
MarkedBuildStep == ScenarioA /\ pc = "build" /\ pc' # "build" /\ MarkedLog(logText')

\* the fix decision on such a log
MarkedGateStep == ScenarioA /\ GateStep /\ MarkedLog(logText)

\* the fix decision issues the pod install and the call goes on
PodInstallIssued ==
  /\ FixExecutedInStep
  /\ executed'[Len(executed')].arg = "cd \"" \o projectPath \o "\" && pod install"
  /\ pc' = "loop"
  /\ attempt' = 1
  /\ result' = Running

EnvironmentFixes == {"pod install", "./gradlew build --refresh-dependencies", "npm install"}

\* this step ends the attempt and the loop goes on
AttemptEndsStep == pc \in {"build", "gate"} /\ pc' = "loop"

\* the classification the attempt ends with is a missing dependency of the environment
MissingDependencyFound(data) ==
  /\ ~data.success
  /\ Len(data.errors) > 0
  /\ data.errors[1].type = "missing_dependency"
  /\ data.errors[1].fix \in EnvironmentFixes

\* a remediation holding this fix was issued in this attempt
FixIssuedInAttempt(fix, calls, a) ==
  \E k \in 1..Len(calls) :
     calls[k].role = "fix" /\ calls[k].attempt = a /\ OccursIn(fix, calls[k].arg)

C12_AutomaticFixes ==
  [][ ( /\ AttemptEndsStep
        /\ ~usePreviewMode
        /\ attempt < maxRetries
        /\ projectPath # ""
        /\ MissingDependencyFound(errorData') )
      => FixIssuedInAttempt(errorData'.errors[1].fix, executed', attempt) ]_vars

(***************************************************************************)
(* C13 - Mode precedence: the step that fixes the effective mode of a call *)
(* takes the previewMode argument when one was supplied (true: preview,    *)
(* false: autonomous, whatever the preferences say), otherwise the         *)
(* automation.mode stored in the preferences at that moment, otherwise     *)
(* autonomous.                                                             *)
(***************************************************************************)
\* the step that fixes the effective mode of the call
ModeStep == pc = "start" /\ pc' # "start"

\* the preferences file can be read and stores a mode
HasStoredMode(p) == p.file = "ok" /\ p.automation /\ p.mode \in {"autonomous", "preview"}

C14_FalseDefersToPreferences ==
  [][ (ModeStep /\ previewMode \in {"false", "undefined"} /\ HasStoredMode(prefs))
        => usePreviewMode' = (prefs.mode = "preview") ]_vars

(***************************************************************************)
(* C15 - Preference defaults instead of errors: when the preferences file  *)
(* is missing or unreadable, is not valid JSON, or has no automation       *)
(* section, loadAutomationMode returns autonomous, shouldAutoApprove       *)
(* returns false for every action, neither ends with an error, and a       *)
(* buildWithRetry call that was given no previewMode goes on to its loop   *)
(* in autonomous mode with no error recorded.                              *)
(***************************************************************************)
Defaulted(p) == p.file \in {"missing", "malformed"} \/ ~p.automation

ThrowStep == Len(executed') > Len(executed) /\ executed'[Len(executed')].threw

\* the last call issued so far threw
LastCallThrew == executed # <<>> /\ executed[Len(executed)].threw

C16_ThrowsCountAsAttempts ==
  /\ [][ ThrowStep =>
           /\ \E m \in ErrorMessages :
                 /\ actionsTaken'[Len(actionsTaken')] = "Error: " \o m
                 /\ lastError' = [kind |-> "message", message |-> m]
           /\ Len(actionsTaken') > Len(actionsTaken)
           /\ SubSeq(actionsTaken', 1, Len(actionsTaken)) = actionsTaken
           /\ attempt' = attempt
           /\ Len(seen') = attempt
           /\ pc' = "loop"
           /\ result' = Running ]_vars
  /\ [][ (pc = "loop" /\ LastCallThrew /\ pc' # "loop") =>
           IF attempt < maxRetries
           THEN pc' = "build" /\ attempt' = attempt + 1
           ELSE result'.status = "Exhausted" ]_vars
  /\ (pc = "loop" /\ LastCallThrew /\ attempt < maxRetries) ~> (pc = "build")

\* the remediation of attempt 1 threw and attempt 2 was built
C16_Witness ==
  /\ attempt = 2
  /\ Len(seen) = 2
  /\ \E k \in 1..Len(executed) :
        executed[k].role = "fix" /\ executed[k].threw /\ executed[k].attempt = 1
  /\ \E k \in 1..Len(actionsTaken) : actionsTaken[k] = "Error: Command failed"

(***************************************************************************)
(* C17 - No exception escapes: whatever the executor calls, the            *)
(* remediation command and the reads of the preferences file throw, a call *)
(* never ends with an exception handed to its caller: while it runs it has *)
(* no result, and once it has returned its result is Success, Exhausted or *)
(* Suspended.                                                              *)
(***************************************************************************)
C17_NoExceptionEscapes ==
  /\ result.status \in Outcomes \cup {"running"}
  /\ Returned <=> result.status \in Outcomes

\* a call that returned after a build call and a remediation threw, the
\* preferences file being unreadable at the end
C17_Witness ==
  /\ Returned
  /\ ~readable(prefs)
  /\ \E k \in 1..Len(executed) : executed[k].role = "fix" /\ executed[k].threw
  /\ \E k \in 1..Len(executed) : executed[k].role = "build" /\ executed[k].threw

(***************************************************************************)
(* C18 - Audit trail in every terminal result: whatever a call returns,    *)
(* Success, Exhausted or Suspended, the result holds the trail             *)
(* actionsTaken as accumulated up to the attempt at which it returns.      *)
(***************************************************************************)
C18_TrailInEveryResult ==
  Returned =>
     /\ "actionsTaken" \in DOMAIN result
     /\ result.actionsTaken = actionsTaken

(***************************************************************************)
(* C19 - Preview flow completes after approval: once a call has shown the  *)
(* action plan for a fix that is not auto-approved (the Suspended result), *)
(* the fix of that plan is eventually applied in that attempt and a later  *)
(* attempt is built, the user's approval being given.                      *)
(***************************************************************************)
\* the plan shown at attempt a was carried out: its fix was issued in that
\* attempt and the build step of a later attempt has run
PlanCarriedOut(a) ==
  /\ previewActions # <<>>
  /\ FixIssuedInAttempt(previewActions[Len(previewActions)].action, executed, a)
  /\ Len(seen) > a

C19_PreviewFlowCompletes ==
  \A a \in 1..MaxRetriesBound :
     (result.status = "Suspended" /\ attempt = a) ~> PlanCarriedOut(a)

(***************************************************************************)
(* C20 - Classifier purity: among the direct calls of detectBuildErrors    *)
(* made so far, in whatever order and with whatever calls in between, two  *)
(* calls with the same logText and ide returned the same success, errors,  *)
(* suggestions and summary; and a call changes nothing but the record of   *)
(* the call and its value.                                                 *)
(***************************************************************************)
SameInputsSameResult ==
  \A i, j \in 1..Len(history) :
     (history[i].logText = history[j].logText /\ history[i].ide = history[j].ide)
        => /\ history[i].value.success = history[j].value.success
           /\ history[i].value.errors = history[j].value.errors
           /\ history[i].value.suggestions = history[j].value.suggestions
           /\ history[i].value.summary = history[j].value.summary

TableIdes == {"xcode", "android", "terminal"}

\* the texts an alternative of a pattern stands for: p alone is 'p occurs';
\* p.*q is 'p occurs, q occurs after it, and no line break lies between
\* them'; letters are compared without case
AltMatches(alt, s) ==
  LET t == ToLower(s)
      p == ToLower(alt[1])
  IN  IF Len(alt) = 1 THEN OccursIn(p, t)
      ELSE LET q == ToLower(alt[2]) IN
           \E i \in 0..Len(t), gap \in 0..Len(t) :
              /\ i + Len(p) + gap + Len(q) <= Len(t)
              /\ SubSeq(t, i + 1, i + Len(p)) = p
              /\ SubSeq(t, i + Len(p) + gap + 1, i + Len(p) + gap + Len(q)) = q
              /\ \A k \in (i + Len(p) + 1)..(i + Len(p) + gap) :
                    SubSeq(t, k, k) # "\n" /\ SubSeq(t, k, k) # "\r"

RowMatches(row, s) == \E a \in 1..Len(row.pattern) : AltMatches(row.pattern[a], s)

\* the rows of the table of env that match s, in table order
MatchingRows(env, s) == SelectSeq(errorPatterns[env], LAMBDA row : RowMatches(row, s))

\* for each log and known environment, the errors and suggestions expected
ExpectedClassification ==
  { [logText |-> s, ide |-> env,
     errors |-> [k \in 1..Len(MatchingRows(env, s)) |->
                   [type    |-> MatchingRows(env, s)[k].type,
                    message |-> MatchingRows(env, s)[k].message,
                    fix     |-> MatchingRows(env, s)[k].fix]],
     suggestions |-> [k \in 1..Len(MatchingRows(env, s)) |-> MatchingRows(env, s)[k].fix]] :
       s \in ClassifierLogs, env \in TableIdes }

\* logs that match the CocoaPods pattern of the xcode table
CocoaPodsLogs ==
  { s \in ClassifierLogs : AltMatches(<<"pod", "not found">>, s) \/ AltMatches(<<"CocoaPods">>, s) }

\* a direct call of detectBuildErrors has returned
Classifying == call.fn = "detectBuildErrors" /\ ret.done

C21_AllMatchesInTableOrder ==
  (Classifying /\ call.ide \in TableIdes) =>
     /\ [logText |-> call.logText, ide |-> call.ide,
         errors |-> ret.value.errors, suggestions |-> ret.value.suggestions]
           \in ExpectedClassification
     /\ (call.ide = "xcode" /\ call.logText \in CocoaPodsLogs) =>
           /\ ret.value.errors[1].type = "missing_dependency"
           /\ ret.value.errors[1].fix = "pod install"

\* the log of the test suite on xcode: the CocoaPods row and the build-error row
C21_Witness ==
  /\ Classifying
  /\ call.ide = "xcode"
  /\ call.logText = "Error: pod not found. Please run pod install"
  /\ Len(ret.value.errors) = 2
  /\ ret.value.suggestions = <<"pod install", "Review error details above">>

C28_UnknownNeverSucceeds ==
  (Classifying /\ call.ide \notin TableIdes) => ret.value.success = FALSE

\* unknown tag, log with the terminal success marker, two terminal rows matching
C28_Witness ==
  /\ Classifying
  /\ call.ide = "vscode"
  /\ OccursIn("success", ToLower(call.logText))
  /\ ~ret.value.success
  /\ Len(ret.value.errors) = 2

(***************************************************************************)
(* C23 - Allowlist loaded once per invocation: every approval decision of  *)
(* a call is taken against the same set of patterns, whatever happens to   *)
(* the preferences file between two attempts; so in preview mode a fix     *)
(* that was approved and run at one attempt is not suspended when it comes *)
(* up again at a later attempt of the same call.                           *)
(***************************************************************************)
\* the fix was run, hence approved, at an earlier attempt of this call
ApprovedEarlier(fix) ==
  \E k \in 1..Len(executed) :
     /\ executed[k].role = "fix"
     /\ executed[k].attempt < attempt
     /\ OccursIn(fix, executed[k].arg)

C23_AllowlistReadOnce ==
  [][ (GateStep /\ usePreviewMode /\ ApprovedEarlier(errorData.errors[1].fix))
        => result'.status # "Suspended" ]_vars

(***************************************************************************)
(* C24 - Only the first match drives remediation: at the fix decision of   *)
(* an attempt, whether the call suspends depends on errors[0].fix alone;   *)
(* the plan of a Suspended result holds errors[0] and nothing else, a      *)
(* command that is run is the one for errors[0].fix, and no attempt runs   *)
(* more than one remediation.                                              *)
(***************************************************************************)
AtMostOneFixPerAttempt ==
  \A a \in 1..attempt :
     Cardinality({ k \in FixCalls : executed[k].attempt = a }) <= 1

C24_FirstMatchOnly ==
  /\ []AtMostOneFixPerAttempt
  /\ [][ GateStep =>
           LET first == errorData.errors[1] IN
           /\ (result'.status = "Suspended")
                 <=> (usePreviewMode /\ ~Allowlisted(first.fix, prefs))
           /\ (result'.status = "Suspended") =>
                 /\ previewActions' = << [action |-> first.fix, reason |-> first.message,
                                          autoApprove |-> FALSE] >>
                 /\ result'.actions = previewActions'
                 /\ executed' = executed
           /\ (result'.status # "Suspended") =>
                 /\ previewActions' = previewActions
                 /\ \/ executed' = executed
                    \/ /\ FixExecutedInStep
                       /\ OccursIn(first.fix, executed'[Len(executed')].arg) ]_vars

\* two matched errors: the fix of the second is allowlisted, the fix of the
\* first is not, and the call suspended on the first
C24_Witness ==
  /\ result.status = "Suspended"
  /\ Len(errorData.errors) = 2
  /\ Allowlisted(errorData.errors[2].fix, prefs)
  /\ ~Allowlisted(errorData.errors[1].fix, prefs)
  /\ result.actions[1].action = errorData.errors[1].fix

(***************************************************************************)
(* C25 - No remediation on the last attempt: the attempt whose number is   *)
(* maxRetries never reaches the fix decision, so it runs no remediation    *)
(* and does not suspend; the call then ends with Success when that attempt *)
(* succeeded and with Exhausted otherwise, and a call runs at most         *)
(* maxRetries - 1 remediations.                                            *)
(***************************************************************************)
LastAttempt == maxRetries >= 1 /\ attempt = maxRetries

LastAttemptSucceeded ==
  /\ Len(seen) = attempt
  /\ seen[attempt].kind = "classified"
  /\ seen[attempt].success

NoFixOnLastAttempt ==
  /\ \A k \in FixCalls : executed[k].attempt < maxRetries
  /\ maxRetries >= 1 => Cardinality(FixCalls) <= maxRetries - 1
  /\ Cardinality(FixCalls) <= maxRetries
  /\ LastAttempt => pc # "gate"
  /\ result.status = "Suspended" => attempt < maxRetries
  /\ (Returned /\ LastAttempt) =>
        result.status = (IF LastAttemptSucceeded THEN "Success" ELSE "Exhausted")

C25_NoFixOnLastAttempt ==
  /\ []NoFixOnLastAttempt
  /\ [][ (pc = "build" /\ pc' # "build" /\ LastAttempt) =>
            /\ pc' \in {"loop", "done"}
            /\ \A k \in 1..Len(executed') : executed'[k].role = "fix" => k <= Len(executed)
            /\ previewActions' = previewActions ]_vars

\* a preview call whose every earlier attempt ran a remediation and whose
\* last attempt matched errors: nothing is run or proposed, the call is Exhausted
C25_Witness ==
  /\ Returned /\ LastAttempt
  /\ usePreviewMode
  /\ maxRetries >= 2
  /\ result.status = "Exhausted"
  /\ seen[attempt].matched > 0
  /\ Cardinality(FixCalls) = maxRetries - 1

(***************************************************************************)
(* C26 - One build trigger per attempt: an attempt whose output is         *)
(* captured and classified has issued exactly one build-related action     *)
(* (the keyboard shortcut of the action in the IDE, or the shell command)  *)
(* before the capture.                                                     *)
(***************************************************************************)
\* the calls of attempt a that start a build, run or test in the environment
BuildTriggers(calls, a) ==
  { k \in 1..Len(calls) :
      /\ calls[k].attempt = a
      /\ calls[k].role = "build"
      /\ calls[k].tool \in {"keyPress", "runTerminalCommand"} }

ClassifiesStep ==
  /\ Len(seen') = Len(seen) + 1
  /\ seen'[Len(seen')].kind = "classified"

C26_OneTriggerPerAttempt ==
  [][ ClassifiesStep => Cardinality(BuildTriggers(executed', attempt)) = 1 ]_vars

(***************************************************************************)
(* C27 - Mode has no effect outside xcode: for any ide other than xcode    *)
(* (android, terminal) the commands executed, the trail, the last error    *)
(* and the result are determined by the arguments other than previewMode   *)
(* and by what the executor returned in each attempt, whatever the         *)
(* effective mode and the preferences are; the call never suspends and     *)
(* never runs a remediation.  Two calls that differ only in mode and       *)
(* allowlist and see the same executor outputs therefore end alike.        *)
(***************************************************************************)
\* the message of the exception of a call that threw
ThrownMessage == CHOOSE m \in ErrorMessages : TRUE

\* the executor call an attempt outside xcode makes, from how the attempt ended
CallOfAttempt(n) ==
  LET made(tool, arg) ==
        << [attempt |-> n, role |-> "build", tool |-> tool, arg |-> arg,
            threw |-> seen[n].kind = "threw"] >>
  IN  IF ide = "android" THEN made("openApplication", "Android Studio")
      ELSE IF projectPath # "" /\ action = "build" THEN made("runTerminalCommand", action)
      ELSE <<>>

RECURSIVE ExpectedExecuted(_)
ExpectedExecuted(n) ==
  IF n = 0 THEN <<>> ELSE ExpectedExecuted(n - 1) \o CallOfAttempt(n)

RECURSIVE ExpectedTrail(_)
ExpectedTrail(n) ==
  IF n = 0 THEN <<>>
  ELSE ExpectedTrail(n - 1)
         \o << "Attempt " \o ToString(n) \o ": Executing " \o action \o "..." >>
         \o (IF n <= Len(seen) /\ seen[n].kind = "threw"
             THEN << "Error: " \o ThrownMessage >> ELSE <<>>)

\* the last error after an attempt that did not succeed
ExpectedLastError ==
  IF Len(seen) = 0 THEN [kind |-> "null"]
  ELSE LET last == seen[Len(seen)] IN
       IF last.kind = "threw" THEN [kind |-> "message", message |-> ThrownMessage]
       ELSE IF last.kind = "classified" THEN [kind |-> "errorData", data |-> errorData]
       ELSE IF ide = "android"
       THEN [kind |-> "message", message |-> "Android Studio automation not fully implemented"]
       ELSE [kind |-> "null"]

LastSucceeded ==
  /\ Len(seen) > 0
  /\ seen[Len(seen)].kind = "classified"
  /\ seen[Len(seen)].success

ExpectedResult ==
  IF LastSucceeded
  THEN [status |-> "Success", attempt |-> Len(seen),
        actionsTaken |-> ExpectedTrail(Len(seen)), isError |-> FALSE]
  ELSE [status |-> "Exhausted", maxRetries |-> maxRetries,
        lastError |-> ExpectedLastError,
        actionsTaken |-> ExpectedTrail(Len(seen)), isError |-> TRUE]

RemediationCommands ==
  { "cd \"" \o projectPath \o "\" && pod install",
    "cd \"" \o projectPath \o "\" && npm install" }

OnlyFixedRemediations ==
  \A k \in FixCalls :
     /\ projectPath # ""
     /\ executed[k].tool = "runTerminalCommand"
     /\ executed[k].arg \in RemediationCommands

\* the fix decision was passed (not suspended) for a fix the code cannot run
PassedWithoutCommand ==
  /\ GateStep
  /\ result'.status # "Suspended"
  /\ projectPath = "" \/ ~Installable(errorData.errors[1].fix)

C29_InstallWitness ==
  /\ projectPath = "/app"
  /\ \E k \in FixCalls : executed[k].arg = "cd \"/app\" && pod install"

(***************************************************************************)
(* C30 - Trail numbering: the trail only grows; its 'Attempt i' entries    *)
(* are exactly one per attempt started so far, numbered 1, 2, ... in       *)
(* order without gaps; and a Success result reports as its attempt the     *)
(* number of attempts started, with the trail holding that many entries.   *)
(***************************************************************************)
IsAttemptEntry(entry) == Len(entry) >= 8 /\ SubSeq(entry, 1, 8) = "Attempt "

AttemptEntries(trail) == SelectSeq(trail, LAMBDA entry : IsAttemptEntry(entry))

\* entry k of the numbered entries carries the number k and the action
NumberedFromOne(entries) ==
  \A k \in 1..Len(entries) :
     entries[k] = "Attempt " \o ToString(k) \o ": Executing " \o action \o "..."

TrailNumbering ==
  /\ Len(AttemptEntries(actionsTaken)) = attempt
  /\ NumberedFromOne(AttemptEntries(actionsTaken))
  /\ result.status = "Success" =>
        /\ result.attempt = attempt
        /\ Len(AttemptEntries(result.actionsTaken)) = result.attempt
        /\ NumberedFromOne(AttemptEntries(result.actionsTaken))

C30_TrailNumbering ==
  /\ []TrailNumbering
  /\ [][ /\ Len(actionsTaken') >= Len(actionsTaken)
         /\ SubSeq(actionsTaken', 1, Len(actionsTaken)) = actionsTaken ]_vars

\* a call that succeeded on its third attempt after an error and a fix:
\* three numbered entries with other entries between them
C30_Witness ==
  /\ result.status = "Success"
  /\ result.attempt = 3
  /\ Len(result.actionsTaken) > 3
  /\ \E k \in 1..Len(result.actionsTaken) :
        ~IsAttemptEntry(result.actionsTaken[k])

=============================================================================
